---- MODULE Spec2Model ----
(***************************************************************************)
(* The task-dependency execution engine of core/agent_orchestrator.py:     *)
(* AgentOrchestrator with its task store, its agent registry and metrics,  *)
(* the round-based execute_workflow loop, the per-task retry loop of       *)
(* _execute_task, the selector and the knowledge store fed by completed    *)
(* tasks.                                                                  *)
(*                                                                         *)
(* One execute_workflow call is one asyncio coroutine; the _execute_task   *)
(* coroutines of a round are the elements of co.  A coroutine runs without *)
(* interruption between two awaits, so every action below is the code      *)
(* between two suspension points (asyncio.to_thread, asyncio.sleep and the *)
(* gather of the round).                                                   *)
(***************************************************************************)
EXTENDS Integers, Sequences, FiniteSets, TLC

\* ------------------------------------------------------------------ bounds
\* Tasks that create_task may create.
MaxTasks == 2
\* Entry ids handed to execute_workflow, summed over all the calls of a run.
MaxEntries == 2

\* The workers a caller may register.
AgentIds == {"w1", "w2"}

\* ------------------------------------------------------- program constants
\* Task.max_retries as create_task sets it.
max_retries == 3
\* The load threshold 0.8 of the selector, in tenths.
LoadThresholdTenths == 8
\* success_rate is kept as an integer number of 1/SCALE: the seed 1.0 is
\* SCALE, and 0.9 * x + 0.1 * b is exact as long as x is a multiple of 10.
SCALE == 100000000

\* Python's None; the string "None" is another value.
None == "<None>"

\* An empty dict.
EmptyMap == [x \in {} |-> None]
PENDING == "pending"
IN_PROGRESS == "in_progress"
COMPLETED == "completed"
FAILED == "failed"
RETRYING == "retrying"
TaskStatus == {PENDING, IN_PROGRESS, COMPLETED, FAILED, RETRYING}

\* The TaskPriority enum.
LOW == 1
MEDIUM == 2
HIGH == 3
CRITICAL == 4
TaskPriority == {LOW, MEDIUM, HIGH, CRITICAL}

\* The exceptions _execute_task can see: the two with a message are named by
\* it, the third is the KeyError of agent_metrics[None].
NoAgentError == "No suitable agent available"
RunError == "run failed"
KeyError == "KeyError(None)"

\* str(e): the message of an exception, and 'None' for KeyError(None).
str(e) == IF e = KeyError THEN "None" ELSE e
CircularError == "Circular dependency detected in workflow"

\* ------------------------------------------------------------ strings
\* Strings are sequences of one-character strings. The characters in use, in
\* code point order.
CodePoints ==
    <<" ", "'", ".", "0", "1", "2", "3", "4", "5", "6", "7", "8", "9", ":",
      "A", "B", "a", "b", "t", "{", "}">>

ord(c) == CHOOSE i \in 1..Len(CodePoints) : CodePoints[i] = c

RECURSIVE StrLess(_, _)

\* a < b on strings: by code point, a proper prefix first.
StrLess(a, b) ==
    IF b = <<>> THEN FALSE
    ELSE IF a = <<>> THEN TRUE
    ELSE IF a[1] = b[1] THEN StrLess(Tail(a), Tail(b))
    ELSE ord(a[1]) < ord(b[1])

\* str.lower()
lower(s) ==
    [i \in 1..Len(s) |->
        IF s[i] = "A" THEN "a" ELSE IF s[i] = "B" THEN "b" ELSE s[i]]

RECURSIVE split(_)

\* str.split(): the runs of characters between whitespace.
split(s) ==
    IF s = <<>> THEN <<>>
    ELSE IF s[1] = " " THEN split(Tail(s))
    ELSE LET spaces == {i \in 1..Len(s) : s[i] = " "}
             n == IF spaces = {} THEN Len(s) + 1
                  ELSE CHOOSE i \in spaces : \A j \in spaces : i <= j
         IN <<SubSeq(s, 1, n - 1)>> \o split(SubSeq(s, n, Len(s)))

\* needle in hay
contains(hay, needle) ==
    \E i \in 1..(Len(hay) - Len(needle) + 1) :
        SubSeq(hay, i, i + Len(needle) - 1) = needle

\* str() of a knowledge dict with the one key t: {'t': '...'}
repr(knowledge) ==
    <<"{", "'", "t", "'", ":", " ", "'">> \o knowledge.t \o <<"'", "}">>

DigitChars == <<"0", "1", "2", "3", "4", "5", "6", "7", "8", "9">>

RECURSIVE zfill(_, _)

\* n in decimal, padded with zeros to width digits.
zfill(n, width) ==
    IF width = 0 THEN <<>>
    ELSE zfill(n \div 10, width - 1) \o <<DigitChars[(n % 10) + 1]>>

\* datetime.isoformat(), its seconds and microseconds: SS, or SS.ffffff when
\* the microseconds are not 0. The fields before them are padded likewise.
isoformat(now) ==
    zfill(now.second, 2)
        \o (IF now.microsecond = 0 THEN <<>>
            ELSE <<".">> \o zfill(now.microsecond, 6))

VARIABLES
    tasks,            \* self.tasks: task id -> Task
    agent_metrics,    \* self.agent_metrics, a dict in insertion order
    knowledge_manager,  \* self.knowledge_manager, a KnowledgeManager
    wf_pc,            \* where the execute_workflow call is
    entry_tasks,      \* the call's argument
    pending_tasks,    \* the call's working set
    ready_tasks,      \* the round's ready list
    co,               \* the round's _execute_task coroutines, in gather order
    results,          \* the call's results dict
    rounds,           \* rounds the call has dispatched
    dispatched,       \* task ids the call has handed to _execute_task
    exhausted,        \* task ids whose _execute_task re-raised in the call
    attempts,         \* task id -> passes through the try block, ever
    entries_used,     \* entry ids handed in so far
    selection,        \* what the last direct call of the selector returned
    collaboration,    \* the AgentCollaboration object
    called,           \* the last call on the collaboration: name, arguments
    returned,         \* what that call returned, or the error it raised
    deliveries,       \* the messages handed to a receiver's run, in order
    workflow_hooks,   \* self.workflow_hooks: event -> list of callbacks
    hook_calls        \* the callbacks the orchestrator has invoked, in order

vars == <<tasks, agent_metrics, knowledge_manager, wf_pc, entry_tasks,
          pending_tasks, ready_tasks, co, results, rounds, dispatched,
          exhausted, attempts, entries_used, selection, collaboration,
          called, returned, deliveries, workflow_hooks, hook_calls>>

\* What direct calls of single operations returned.
retVars == <<selection>>

\* The AgentCollaboration object and what its last call returned.
collabVars == <<collaboration, called, returned, deliveries>>

\* The registered workflow hooks and the calls made to them.
hookVars == <<workflow_hooks, hook_calls>>

\* No direct call has returned yet.
Unset == "<unset>"

\* KnowledgeManager.__init__
NewKnowledgeManager ==
    [knowledge_store |-> <<>>, knowledge_graph |-> EmptyMap,
     knowledge_index |-> EmptyMap]

\* AgentCollaboration.__init__
NewCollaboration ==
    [agents |-> {}, message_queue |-> <<>>, knowledge_store |-> <<>>,
     knowledge_graph |-> <<>>]

wfLocals == <<entry_tasks, pending_tasks, ready_tasks, co, results, rounds,
              dispatched, exhausted>>

TaskIds == DOMAIN tasks

\* ----------------------------------------------------------- the registry
\* A metrics record: current_load is kept in tenths (a load of 1 is 10),
\* success_rate in units of 1 / SCALE, avg_response_time in seconds.
NewMetrics(agent_id) ==
    [agent_id |-> agent_id, current_load |-> 0, success_rate |-> SCALE,
     avg_response_time |-> 0]

Registered(am) == {am[i].agent_id : i \in 1..Len(am)}

IndexOf(am, agent_id) == CHOOSE i \in 1..Len(am) : am[i].agent_id = agent_id

Metrics(am, agent_id) == am[IndexOf(am, agent_id)]

\* register_agent: a new key goes last, an existing key keeps its place and
\* gets fresh metrics.
register_agent(agent_id) ==
    /\ wf_pc # "running"
    /\ agent_metrics' =
         IF agent_id \in Registered(agent_metrics)
         THEN [agent_metrics EXCEPT
                 ![IndexOf(agent_metrics, agent_id)] = NewMetrics(agent_id)]
         ELSE Append(agent_metrics, NewMetrics(agent_id))
    /\ UNCHANGED <<tasks, knowledge_manager, wf_pc, wfLocals, attempts,
                   entries_used, retVars,
                   collabVars, hookVars>>

\* ---------------------------------------------------------- the task store
\* The dependency lists a caller may pass: any ids create_task can hand out,
\* those of tasks that do not exist (yet) and the task's own id included.
\* Only membership in the list is ever read, so it is kept as a set.
DepChoices == SUBSET (0..(MaxTasks - 1))

NewTask(priority, dependencies) ==
    [priority |-> priority, dependencies |-> dependencies,
     assigned_agent |-> None,
     status |-> PENDING, retry_count |-> 0, result |-> None, error |-> None]

create_task(priority, dependencies) ==
    /\ wf_pc # "running"
    /\ Cardinality(TaskIds) < MaxTasks
    /\ LET task_id == Cardinality(TaskIds) IN
         /\ tasks' = (task_id :> NewTask(priority, dependencies)) @@ tasks
         /\ attempts' = (task_id :> 0) @@ attempts
    /\ UNCHANGED <<agent_metrics, knowledge_manager, wf_pc, wfLocals,
                   entries_used, retVars,
                   collabVars, hookVars>>

\* ------------------------------------------------------------ the selector
\* The score of _select_optimal_agent, times 5 * SCALE:
\* 0.4 * success_rate + 0.4 * (1 - current_load) + 0.2 / (avg_response_time + 1).
Score(m) ==
    2 * m.success_rate + (10 - m.current_load) * (SCALE \div 5)
      + SCALE \div (m.avg_response_time + 1)

\* A selector that does not look at the load.
UnderThresholdAlways(m) == TRUE

\* A threshold test that lets a load of 0.8 through.
UnderThresholdInclusive(m) == m.current_load <= LoadThresholdTenths

\* metrics['current_load'] < 0.8
UnderThreshold(m) == m.current_load < LoadThresholdTenths

\* The candidates list, in the dict's iteration order.
Candidates(am) == SelectSeq(am, UnderThreshold)

\* max(candidates, key=score): the first candidate of maximal score.
_select_optimal_agent(am) ==
    LET c == Candidates(am) IN
      IF c = <<>> THEN None
      ELSE LET i == CHOOSE i \in 1..Len(c) :
                      /\ \A j \in 1..Len(c) : Score(c[j]) <= Score(c[i])
                      /\ \A j \in 1..(i - 1) : Score(c[j]) < Score(c[i])
           IN c[i].agent_id

\* ------------------------------------------------------------- the metrics
\* A load that only goes up: the decrement of the finally block is lost.
AddLoadNeverDown(am, agent_id, d) ==
    [am EXCEPT ![CHOOSE i \in 1..Len(am) : am[i].agent_id = agent_id]
                   .current_load = IF d > 0 THEN @ + 10 * d ELSE @]

\* current_load += d, in tenths.
AddLoad(am, agent_id, d) ==
    [am EXCEPT ![IndexOf(am, agent_id)].current_load = @ + 10 * d]

\* success_rate * 0.9 + (1.0 if success else 0.0) * 0.1
NewSuccessRate(old, success) ==
    (9 * (old \div 10)) + (IF success THEN SCALE \div 10 ELSE 0)

\* avg_response_time * 0.9 + execution_time * 0.1, in seconds.
NewResponseTime(old, execution_time) == (9 * old + execution_time) \div 10

\* The elapsed seconds a run may take: those that keep the average a whole
\* number of seconds (0.9 * 0 + 0.1 * 10 = 1, 0.9 * 1 + 0.1 * 1 = 1).
ExecutionTimes(old) == IF old = 0 THEN {0, 10} ELSE {old}

\* _update_agent_metrics, for an agent_id that is a key of agent_metrics.
_update_agent_metrics(am, agent_id, success, execution_time) ==
    LET i == IndexOf(am, agent_id) IN
      [am EXCEPT
         ![i].success_rate = NewSuccessRate(@, success),
         ![i].avg_response_time =
             IF success THEN NewResponseTime(@, execution_time) ELSE @]

\* --------------------------------------------------------- _execute_task
\* A coroutine of the round: the task it runs, where it is, the worker its
\* current attempt selected, and what it returned or raised.
NewCoroutine(task_id) ==
    [task_id |-> task_id, pc |-> "start", selected_agent |-> None,
     out |-> None]

Settled(c) == c.pc \in {"returned", "raised"}

\* An event loop that a sleeping coroutine holds (a blocking sleep): nothing
\* else is handled while a coroutine sleeps.
StartedAndNoneAsleep ==
    \A i \in 1..Len(co) : co[i].pc \notin {"start", "sleeping"}

\* The event loop starts the coroutines of a gather in order, each running to
\* its first await before anything else is handled.
Started == \A i \in 1..Len(co) : co[i].pc # "start"

MayStart(i) == \A j \in 1..(i - 1) : co[j].pc # "start"

\* The except block of _execute_task for coroutine i, on the task store tk
\* and the metrics am the try block left: count the retry, record the error
\* and the status, charge the failure to task.assigned_agent, then re-raise
\* (FAILED) or sleep.  agent_metrics[None] is a KeyError that leaves the
\* coroutine from inside the handler.
ExceptBlock(i, error, tk, am) ==
    LET t == co[i].task_id
        rc == tk[t].retry_count + 1
        st == IF rc <= max_retries THEN RETRYING ELSE FAILED
        agent == tk[t].assigned_agent
    IN
      /\ tasks' = [tk EXCEPT ![t].retry_count = rc, ![t].error = str(error),
                             ![t].status = st]
      /\ IF agent \notin Registered(am)
         THEN /\ agent_metrics' = am
              /\ co' = [co EXCEPT ![i].pc = "raised", ![i].out = KeyError]
         ELSE /\ agent_metrics' = _update_agent_metrics(am, agent, FALSE, 0)
              /\ co' = IF st = FAILED
                       THEN [co EXCEPT ![i].pc = "raised", ![i].out = error]
                       ELSE [co EXCEPT ![i].pc = "sleeping"]

\* The top of the while loop of coroutine i, up to its next await: leave the
\* loop (and return None) once retry_count exceeds max_retries, else select a
\* worker and either enter the except block (no worker) or mark the task
\* IN_PROGRESS, raise the worker's load and hand the run to a thread.
LoopTop(i) ==
    LET t == co[i].task_id
        selected_agent == _select_optimal_agent(agent_metrics)
    IN
      IF tasks[t].retry_count > max_retries
      THEN /\ co' = [co EXCEPT ![i].pc = "returned", ![i].out = None]
           /\ UNCHANGED <<tasks, agent_metrics, attempts>>
      ELSE /\ attempts' = [attempts EXCEPT ![t] = @ + 1]
           /\ IF selected_agent = None
              THEN ExceptBlock(i, NoAgentError, tasks, agent_metrics)
              ELSE /\ tasks' = [tasks EXCEPT
                                  ![t].assigned_agent = selected_agent,
                                  ![t].status = IN_PROGRESS]
                   /\ agent_metrics' = AddLoad(agent_metrics, selected_agent, 1)
                   /\ co' = [co EXCEPT ![i].pc = "running",
                                       ![i].selected_agent = selected_agent]

coFrame == <<knowledge_manager, wf_pc, entry_tasks, pending_tasks, ready_tasks,
             results, rounds, dispatched, exhausted, entries_used, retVars,
                   collabVars, hookVars>>

\* The first step of a coroutine of the round.
StartTask(i) ==
    /\ wf_pc = "running"
    /\ co[i].pc = "start"
    /\ MayStart(i)
    /\ LoopTop(i)
    /\ UNCHANGED coFrame

\* asyncio.sleep(2 ** retry_count) is over: back to the top of the loop.
Wake(i) ==
    /\ wf_pc = "running"
    /\ Started
    /\ co[i].pc = "sleeping"
    /\ LoopTop(i)
    /\ UNCHANGED coFrame

RECURSIVE IndexWords(_, _, _)

\* for word in words: self.knowledge_index[word].append(doc_id)
IndexWords(index, words, doc_id) ==
    IF words = <<>> THEN index
    ELSE LET word == Head(words) IN
         IndexWords(IF word \in DOMAIN index
                    THEN [index EXCEPT ![word] = Append(@, doc_id)]
                    ELSE (word :> <<doc_id>>) @@ index,
                    Tail(words), doc_id)

RECURSIVE AddDocumentsFrom(_, _, _, _)

\* The for loop of add_documents from document i on.  The id doc_n is the
\* number n; the timestamp of an entry, which nothing reads, is left out;
\* a metadata of None is the empty list.
AddDocumentsFrom(km, documents, metadata, i) ==
    IF i > Len(documents) THEN km
    ELSE LET doc == documents[i]
             doc_id == Len(km.knowledge_store)
             doc_entry ==
                 [id |-> doc_id, content |-> doc,
                  metadata |-> IF i <= Len(metadata) THEN metadata[i]
                               ELSE EmptyMap,
                  type |-> "document"]
         IN AddDocumentsFrom(
                [km EXCEPT
                   !.knowledge_store = Append(@, doc_entry),
                   !.knowledge_index = IndexWords(@, split(lower(doc)),
                                                  doc_id)],
                documents, metadata, i + 1)

\* An add_documents that starts from an empty manager every time.
add_documents_afresh(km, documents, metadata) ==
    AddDocumentsFrom(NewKnowledgeManager, documents, metadata, 1)

\* KnowledgeManager.add_documents
add_documents(km, documents, metadata) ==
    AddDocumentsFrom(km, documents, metadata, 1)

\* str(result) of a run's result, as text.
chars(result) == <<"w", IF result = "w1" THEN "1" ELSE "2">>

\* What the worker's run returns: the payload names the worker.
RunResult(agent_id) == agent_id

\* agent.run returned: the result goes to the knowledge store, the load comes
\* down, the worker's metrics count a success, the task is COMPLETED.
RunReturns(i) ==
    LET t == co[i].task_id
        a == co[i].selected_agent
        result == RunResult(a)
    IN
      /\ wf_pc = "running"
      /\ Started
      /\ co[i].pc = "running"
      /\ knowledge_manager' =
             add_documents(knowledge_manager, <<chars(result)>>,
                           <<[task_id |-> t, agent_id |-> a]>>)
      /\ \E execution_time \in
              ExecutionTimes(Metrics(agent_metrics, a).avg_response_time) :
           agent_metrics' =
             _update_agent_metrics(AddLoad(agent_metrics, a, -1), a, TRUE,
                                   execution_time)
      /\ tasks' = [tasks EXCEPT ![t].status = COMPLETED, ![t].result = result]
      /\ co' = [co EXCEPT ![i].pc = "returned", ![i].out = result]
      /\ UNCHANGED <<wf_pc, entry_tasks, pending_tasks, ready_tasks, results,
                     rounds, dispatched, exhausted, attempts, entries_used,
                     retVars,
                   collabVars, hookVars>>

\* agent.run raised: the finally block brings the load down, then the except
\* block of _execute_task.
RunRaises(i) ==
    /\ wf_pc = "running"
    /\ Started
    /\ co[i].pc = "running"
    /\ ExceptBlock(i, RunError, tasks,
                   AddLoad(agent_metrics, co[i].selected_agent, -1))
    /\ UNCHANGED <<coFrame, attempts>>

\* ------------------------------------------------------- execute_workflow
Range(s) == {s[i] : i \in 1..Len(s)}

\* A ready test that also wants every dependency COMPLETED.
IsReadyWhenCompleted(t, pending) ==
    \A dep \in tasks[t].dependencies :
        /\ dep \notin {pending[i] : i \in 1..Len(pending)}
        /\ dep \in DOMAIN tasks => tasks[dep].status = COMPLETED

\* A ready test that does not look at the working set.
IsReadyAlways(t, pending) == TRUE

\* A round that starts its tasks by priority, highest first.
ReadyTasksByPriority(pending) ==
    LET Test(t) ==
            \A dep \in tasks[t].dependencies :
                dep \notin {pending[i] : i \in 1..Len(pending)}
        Before(a, b) == tasks[a].priority > tasks[b].priority
    IN SortSeq(SelectSeq(pending, Test), Before)

\* all(dep not in pending_tasks for dep in self.tasks[t].dependencies)
IsReady(t, pending) ==
    \A dep \in tasks[t].dependencies : dep \notin Range(pending)

\* ready_tasks of a round, in the order of pending_tasks.
ReadyTasks(pending) ==
    LET Test(t) == IsReady(t, pending) IN SelectSeq(pending, Test)

\* list.remove(x): the first occurrence goes.
Remove(s, x) ==
    LET i == CHOOSE i \in 1..Len(s) :
               s[i] = x /\ \A j \in 1..(i - 1) : s[j] # x
    IN SubSeq(s, 1, i - 1) \o SubSeq(s, i + 1, Len(s))

RECURSIVE JoinTasks(_, _)
RECURSIVE JoinResults(_, _)
RECURSIVE JoinPending(_, _)
RECURSIVE JoinPendingKeepsFailed(_, _)

\* A for loop that writes no status.
JoinTasksLeavesStatus(tk, i) == tk

\* A for loop whose remove sits in the else branch: a task that raised
\* stays in pending_tasks.
JoinPendingKeepsFailed(pending, i) ==
    IF i > Len(co) THEN pending
    ELSE JoinPendingKeepsFailed(IF co[i].pc = "raised" THEN pending
                                ELSE Remove(pending, co[i].task_id),
                                i + 1)

\* The for loop over zip(ready_tasks, completed), from pair i on: a raised
\* exception marks the task FAILED with its text ...
JoinTasks(tk, i) ==
    IF i > Len(co) THEN tk
    ELSE JoinTasks(IF co[i].pc = "raised"
                   THEN [tk EXCEPT ![co[i].task_id].status = FAILED,
                                   ![co[i].task_id].error = str(co[i].out)]
                   ELSE tk,
                   i + 1)

\* ... a returned value goes to results ...
JoinResults(res, i) ==
    IF i > Len(co) THEN res
    ELSE JoinResults(IF co[i].pc = "raised" THEN res
                     ELSE (co[i].task_id :> co[i].out) @@ res,
                     i + 1)

\* ... and the task leaves pending_tasks either way.
JoinPending(pending, i) ==
    IF i > Len(co) THEN pending
    ELSE JoinPending(Remove(pending, co[i].task_id), i + 1)

\* A while loop without the check for ready tasks: it ends the call.
LoopOutcomeWithoutCheck(pending, ready) ==
    IF pending = <<>> \/ ready = <<>> THEN "returned" ELSE "running"

\* The while loop's test and the check under it: the call returns when the
\* working set is empty and raises CircularError when nothing in it is ready.
LoopOutcome(pending, ready) ==
    IF pending = <<>> THEN "returned"
    ELSE IF ready = <<>> THEN "raised"
    ELSE "running"

\* The while loop from its test to the gather: return, raise, or create the
\* round's coroutines.  n and d are the rounds and the dispatched ids so far.
WhileLoop(pending, res, n, d) ==
    LET ready == ReadyTasks(pending)
        outcome == LoopOutcome(pending, ready)
    IN
      /\ pending_tasks' = pending
      /\ results' = res
      /\ wf_pc' = outcome
      /\ IF outcome = "running"
         THEN /\ ready_tasks' = ready
              /\ co' = [i \in 1..Len(ready) |-> NewCoroutine(ready[i])]
              /\ rounds' = n + 1
              /\ dispatched' = d \cup Range(ready)
         ELSE /\ ready_tasks' = <<>>
              /\ co' = <<>>
              /\ rounds' = n
              /\ dispatched' = d

\* The entry lists a call may pass: ids of existing tasks, an id may repeat.
EntryLists ==
    UNION {[1..n -> TaskIds] : n \in 0..(MaxEntries - entries_used)}

\* execute_workflow(entry) up to its first gather.
execute_workflow(entry) ==
    /\ wf_pc # "running"
    /\ entries_used' = entries_used + Len(entry)
    /\ entry_tasks' = entry
    /\ exhausted' = {}
    /\ WhileLoop(entry, EmptyMap, 0, {})
    /\ UNCHANGED <<tasks, agent_metrics, knowledge_manager, attempts, retVars,
                   collabVars, hookVars>>

\* The coroutines whose _execute_task left through the raise of line 140.
ReRaised == {i \in 1..Len(co) : co[i].pc = "raised" /\ co[i].out # KeyError}

\* A gather call left at its default.
return_exceptions_default == FALSE

\* The return_exceptions argument of the gather call.
return_exceptions == TRUE

\* Without return_exceptions the gather raises the first exception of a
\* coroutine into execute_workflow, which has no handler around it.
GatherRaises ==
    ~return_exceptions /\ \E i \in 1..Len(co) : co[i].pc = "raised"

\* The await on the gather is over.
GatherDone == GatherRaises \/ \A i \in 1..Len(co) : Settled(co[i])

\* The gather of the round returns: the for loop, then the while loop again.
Join ==
    /\ wf_pc = "running"
    /\ GatherDone
    /\ exhausted' = exhausted \cup {co[i].task_id : i \in ReRaised}
    /\ IF GatherRaises
       THEN /\ wf_pc' = "raised"
            /\ co' = <<>>
            /\ ready_tasks' = <<>>
            /\ UNCHANGED <<tasks, pending_tasks, results, rounds, dispatched>>
       ELSE /\ tasks' = JoinTasks(tasks, 1)
            /\ WhileLoop(JoinPending(pending_tasks, 1),
                         JoinResults(results, 1), rounds, dispatched)
    /\ UNCHANGED <<agent_metrics, knowledge_manager, entry_tasks, attempts,
                   entries_used, retVars,
                   collabVars, hookVars>>

\* ------------------------------------------------------------------ system
Init ==
    /\ tasks = EmptyMap
    /\ agent_metrics = <<>>
    /\ knowledge_manager = NewKnowledgeManager
    /\ wf_pc = "idle"
    /\ entry_tasks = <<>>
    /\ pending_tasks = <<>>
    /\ ready_tasks = <<>>
    /\ co = <<>>
    /\ results = EmptyMap
    /\ rounds = 0
    /\ dispatched = {}
    /\ exhausted = {}
    /\ attempts = EmptyMap
    /\ entries_used = 0
    /\ selection = Unset
    /\ collaboration = NewCollaboration
    /\ called = <<>>
    /\ returned = Unset
    /\ deliveries = <<>>
    /\ workflow_hooks = EmptyMap
    /\ hook_calls = <<>>

RegisterAgent == \E agent_id \in AgentIds : register_agent(agent_id)

\* Tasks are created with one priority here; PrioritySpec varies it.
CreateTask ==
    \E dependencies \in DepChoices : create_task(MEDIUM, dependencies)

ExecuteWorkflow == \E entry \in EntryLists : execute_workflow(entry)

TaskStarts == \E i \in 1..Len(co) : StartTask(i)

TaskWakes == \E i \in 1..Len(co) : Wake(i)

RunReturn == \E i \in 1..Len(co) : RunReturns(i)

RunRaise == \E i \in 1..Len(co) : RunRaises(i)

WorkflowStep == TaskStarts \/ TaskWakes \/ RunReturn \/ RunRaise \/ Join

Next ==
    \/ RegisterAgent
    \/ CreateTask
    \/ ExecuteWorkflow
    \/ TaskStarts
    \/ TaskWakes
    \/ RunReturn
    \/ RunRaise
    \/ Join

Spec == Init /\ [][Next]_vars

\* The event loop runs every callback that is ready, every run call returns
\* or raises and every sleep ends: a running call always takes its next step.
FairSpec == Spec /\ WF_vars(WorkflowStep)

\* -------------------------------------------------------------- properties
\* The declared dependencies of t that name a task of the store.
Deps(t) == tasks[t].dependencies \cap TaskIds

RECURSIVE DepClosure(_, _)

\* S and what n steps along the dependency relation reach from it.
DepClosure(S, n) ==
    IF n = 0 THEN S
    ELSE DepClosure(S \cup UNION {Deps(t) : t \in S}, n - 1)

\* The tasks reachable from the ids of S through the dependency relation.
Reachable(S) == DepClosure(S \cap TaskIds, Cardinality(TaskIds))

\* No task reaches itself along the dependency relation.
Acyclic ==
    \A t \in TaskIds : t \notin DepClosure(Deps(t), Cardinality(TaskIds))

\* C1: no task's status becomes IN_PROGRESS while a task named in its
\* dependency list still has status PENDING, whatever the entry list holds.
C1_NoStartBeforeDependency ==
    [][\A t \in TaskIds :
         (tasks[t].status # IN_PROGRESS /\ tasks'[t].status = IN_PROGRESS)
             => \A dep \in Deps(t) : tasks[dep].status # PENDING]_vars

\* C2: when execute_workflow returns, every task reachable from the entry
\* ids through the dependency relation has been dispatched and has left
\* PENDING.
C2_ReachableTasksExecuted ==
    wf_pc = "returned"
        => \A t \in Reachable(Range(entry_tasks)) :
               t \in dispatched /\ tasks[t].status # PENDING

\* C3: with every run call returning or raising and every sleep ending, a
\* call over an acyclic dependency graph ends by returning; every round takes
\* at least one task out of the working set, so a call has at most len(entry)
\* rounds; the returned mapping has an entry for every task of the call that
\* is COMPLETED.
C3_AcyclicWorkflowTerminates ==
    /\ [](wf_pc = "raised" => ~Acyclic)
    /\ [](wf_pc = "running"
            => rounds + Len(pending_tasks) <= Len(entry_tasks) + 1)
    /\ [](rounds <= Len(entry_tasks))
    /\ [](wf_pc = "returned"
            => \A t \in Range(entry_tasks) :
                   tasks[t].status = COMPLETED => t \in DOMAIN results)
    /\ (wf_pc = "running" ~> wf_pc \in {"returned", "raised"})

\* C3 witness: a call over an acyclic graph returned after two rounds with
\* the result of a COMPLETED task in its mapping.
C3_Witness ==
    /\ wf_pc = "returned"
    /\ Acyclic
    /\ rounds = 2
    /\ \E t \in DOMAIN results :
           tasks[t].status = COMPLETED /\ results[t] = tasks[t].result

\* C4: a call whose working set is non-empty with no ready task in it raises,
\* a call raises for no other reason, and no task left in the working set of
\* a call that raised was dispatched by the call.
C4_NoReadyTaskRaises ==
    /\ (wf_pc # "idle" /\ pending_tasks # <<>>
            /\ ReadyTasks(pending_tasks) = <<>>) => wf_pc = "raised"
    /\ wf_pc = "raised"
           => /\ pending_tasks # <<>>
              /\ ReadyTasks(pending_tasks) = <<>>
              /\ Range(pending_tasks) \cap dispatched = {}
              /\ \A i \in 1..Len(co) : co[i].task_id \notin Range(pending_tasks)

\* C4 witness: the call raised over two tasks that depend on each other.
C4_Witness ==
    /\ wf_pc = "raised"
    /\ Len(pending_tasks) = 2
    /\ pending_tasks[1] # pending_tasks[2]
    /\ pending_tasks[2] \in tasks[pending_tasks[1]].dependencies
    /\ pending_tasks[1] \in tasks[pending_tasks[2]].dependencies

\* C5: a FAILED task that never had a result was attempted exactly
\* max_retries + 1 times and has retry_count = max_retries + 1.
C5_FailedAfterAllAttempts ==
    \A t \in TaskIds :
        (tasks[t].status = FAILED /\ tasks[t].result = None)
            => /\ tasks[t].retry_count = max_retries + 1
               /\ attempts[t] = max_retries + 1

\* The status changes of the documented state machine.
AllowedTransitions ==
    {<<PENDING, IN_PROGRESS>>, <<IN_PROGRESS, COMPLETED>>,
     <<IN_PROGRESS, RETRYING>>, <<IN_PROGRESS, FAILED>>,
     <<RETRYING, IN_PROGRESS>>}

\* C6: a status changes only along PENDING->IN_PROGRESS,
\* IN_PROGRESS->COMPLETED, IN_PROGRESS->RETRYING, IN_PROGRESS->FAILED and
\* RETRYING->IN_PROGRESS, and no task is FAILED with retry_count at most
\* max_retries.
C6_StatusTransitions ==
    [][\A t \in TaskIds :
         /\ tasks'[t].status # tasks[t].status
                => <<tasks[t].status, tasks'[t].status>> \in AllowedTransitions
         /\ tasks'[t].status = FAILED
                => tasks'[t].retry_count > max_retries]_vars

\* C7: a task whose status is COMPLETED or FAILED keeps that status and is
\* not attempted again, over any sequence of calls.
C7_TerminalStatuses ==
    [][\A t \in TaskIds :
         tasks[t].status \in {COMPLETED, FAILED}
             => /\ tasks'[t].status = tasks[t].status
                /\ attempts'[t] = attempts[t]]_vars

\* The texts of the errors the round's raised coroutines of task t ended
\* with.
RaisedErrors(t) ==
    {str(co[i].out) : i \in {j \in 1..Len(co) :
                          co[j].task_id = t /\ co[j].pc = "raised"}}

\* C8: the gather of a round in which a task failed is over only when every
\* coroutine of the round has returned or raised; every task of the round is
\* then COMPLETED or FAILED, a task that raised is FAILED with the text of its
\* error, a task whose coroutines all returned a result is COMPLETED with a
\* key in the mapping, and every task of the round has left the working set.
C8_SiblingsNotAborted ==
    [][(Join /\ \E i \in 1..Len(co) : co[i].pc = "raised")
         => \A i \in 1..Len(co) :
              LET t == co[i].task_id IN
                /\ Settled(co[i])
                /\ tasks'[t].status \in {COMPLETED, FAILED}
                /\ co[i].pc = "raised"
                       => /\ tasks'[t].status = FAILED
                          /\ tasks'[t].error \in RaisedErrors(t)
                /\ (co[i].pc = "returned" /\ RaisedErrors(t) = {}
                        /\ co[i].out # None)
                       => /\ tasks'[t].status = COMPLETED
                          /\ t \in DOMAIN results'
                /\ t \notin Range(pending_tasks')]_vars

\* C8 witness: a one-round call returned; one of its tasks used up its
\* retries and is FAILED with the error text, its sibling is COMPLETED with
\* its result in the mapping.
C8_Witness ==
    /\ wf_pc = "returned"
    /\ rounds = 1
    /\ \E a \in exhausted, b \in DOMAIN results :
           /\ a # b
           /\ tasks[a].status = FAILED
           /\ tasks[a].error = RunError
           /\ tasks[b].status = COMPLETED
           /\ results[b] = tasks[b].result

C10_SelectorExhaustionRetried ==
    [][\A i \in 1..Len(co) :
         LET t == co[i].task_id IN
           (/\ co[i].pc \in {"start", "sleeping"}
            /\ co'[i].pc # co[i].pc
            /\ tasks[t].retry_count <= max_retries
            /\ _select_optimal_agent(agent_metrics) = None)
               => /\ tasks'[t].retry_count = tasks[t].retry_count + 1
                  /\ tasks[t].retry_count < max_retries
                         => /\ tasks'[t].status = RETRYING
                            /\ co'[i].pc = "sleeping"]_vars

\* C11: when execute_workflow has returned, the keys of its mapping are the
\* entry tasks that are COMPLETED, each with the result on its Task record,
\* and every other entry task is FAILED with an error on its record.
C11_MappingIsCompletedTasks ==
    wf_pc = "returned"
        => /\ DOMAIN results =
                  {t \in Range(entry_tasks) : tasks[t].status = COMPLETED}
           /\ \A t \in DOMAIN results : results[t] = tasks[t].result
           /\ \A t \in Range(entry_tasks) \ DOMAIN results :
                  tasks[t].status = FAILED /\ tasks[t].error # None

\* ------------------------------------------------- the three-task scenario
\* T1 without dependencies, T2 and T3 depending on T1, as three create_task
\* calls leave them (ids task_0, task_1, task_2), and the entry list
\* [T1, T2, T3].
ScenarioDependencies == <<{}, {0}, {0}>>

ScenarioEntry == <<0, 1, 2>>

ScenarioInit ==
    /\ tasks = [t \in 0..(Len(ScenarioDependencies) - 1)
                   |-> NewTask(MEDIUM, ScenarioDependencies[t + 1])]
    /\ attempts = [t \in 0..(Len(ScenarioDependencies) - 1) |-> 0]
    /\ agent_metrics = <<>>
    /\ knowledge_manager = NewKnowledgeManager
    /\ wf_pc = "idle"
    /\ entry_tasks = <<>>
    /\ pending_tasks = <<>>
    /\ ready_tasks = <<>>
    /\ co = <<>>
    /\ results = EmptyMap
    /\ rounds = 0
    /\ dispatched = {}
    /\ exhausted = {}
    /\ entries_used = 0
    /\ selection = Unset
    /\ collaboration = NewCollaboration
    /\ called = <<>>
    /\ returned = Unset
    /\ deliveries = <<>>
    /\ workflow_hooks = EmptyMap
    /\ hook_calls = <<>>

\* The one call of the scenario.
ScenarioCall == wf_pc = "idle" /\ execute_workflow(ScenarioEntry)

ScenarioNext ==
    \/ RegisterAgent
    \/ ScenarioCall
    \/ TaskStarts
    \/ TaskWakes
    \/ RunReturn
    \/ RunRaise
    \/ Join

ScenarioSpec == ScenarioInit /\ [][ScenarioNext]_vars

\* C12: the coroutines of a round are, in order, the tasks of the working
\* set none of whose dependencies is in the working set; over T1, T2, T3 with
\* entry [T1, T2, T3] round 1 is T1 alone and round 2 is T2 and T3 together,
\* and there is no third round.
C12_RoundsDispatchReadyTasks ==
    /\ wf_pc = "running"
           => /\ Range(ready_tasks) =
                     {t \in Range(pending_tasks) :
                          tasks[t].dependencies \cap Range(pending_tasks) = {}}
              /\ [i \in 1..Len(co) |-> co[i].task_id] = ready_tasks
              /\ Range(ready_tasks) \subseteq dispatched
    /\ (wf_pc = "running" /\ rounds = 1)
           => ready_tasks = <<0>> /\ dispatched = {0}
    /\ (wf_pc = "running" /\ rounds = 2)
           => ready_tasks = <<1, 2>> /\ pending_tasks = <<1, 2>>
    /\ rounds <= 2
    /\ wf_pc = "returned" => rounds = 2 /\ dispatched = {0, 1, 2}
    /\ wf_pc # "raised"

\* C12 witness: in round 2 the attempts of T2 and T3 run at the same time.
C12_Witness ==
    /\ wf_pc = "running"
    /\ rounds = 2
    /\ Len(co) = 2
    /\ co[1].task_id = 1 /\ co[1].pc = "running"
    /\ co[2].task_id = 2 /\ co[2].pc = "running"

\* C13: a round is dispatched after another only when every coroutine of
\* the earlier round has returned or has raised with its task's retries used
\* up, and no task of the earlier round is then IN_PROGRESS or RETRYING.
C13_RoundBarrier ==
    [][(wf_pc = "running" /\ rounds' = rounds + 1)
         => \A i \in 1..Len(co) :
              LET t == co[i].task_id IN
                /\ \/ co[i].pc = "returned"
                   \/ /\ co[i].pc = "raised"
                      /\ tasks[t].retry_count > max_retries
                /\ tasks'[t].status \notin {IN_PROGRESS, RETRYING}]_vars

\* C14: while a coroutine of the round is in its backoff sleep, a coroutine
\* of another task of the round goes on: one whose run is out can take the
\* return of the run, its task being COMPLETED with the sleeper still asleep,
\* and one that sleeps too can wake for its next selection with the first
\* still asleep.
C14_SleepSuspendsOnlyItsTask ==
    \A i, j \in 1..Len(co) :
        (/\ wf_pc = "running"
         /\ co[i].pc = "sleeping"
         /\ tasks[co[i].task_id].status = RETRYING
         /\ co[j].task_id # co[i].task_id)
            => /\ co[j].pc = "running"
                      => ENABLED (/\ RunReturns(j)
                                  /\ co'[i].pc = "sleeping"
                                  /\ tasks'[co[j].task_id].status = COMPLETED
                                  /\ attempts'[co[i].task_id]
                                         = attempts[co[i].task_id])
               /\ co[j].pc = "sleeping"
                      => ENABLED (Wake(j) /\ co'[i].pc = "sleeping")

\* C14 witness: a task is RETRYING and asleep after its first attempt, and
\* another task of the round has been selected a second time, has run and is
\* COMPLETED.
C14_Witness ==
    \E i, j \in 1..Len(co) :
        /\ wf_pc = "running"
        /\ co[i].pc = "sleeping"
        /\ tasks[co[i].task_id].status = RETRYING
        /\ attempts[co[i].task_id] = 1
        /\ co[j].task_id # co[i].task_id
        /\ co[j].pc = "returned"
        /\ attempts[co[j].task_id] = 2
        /\ tasks[co[j].task_id].status = COMPLETED

\* C15: when the gather of a round is over with a task that raised, that task
\* is FAILED, and every task of the working set that depends on it and has no
\* dependency left in the working set gets a coroutine in the next round of
\* the same call.
C15_FailedDependencySatisfies ==
    [][Join
         => \A i \in 1..Len(co) :
              co[i].pc = "raised"
                  => /\ tasks'[co[i].task_id].status = FAILED
                     /\ \A t \in Range(pending_tasks') :
                          (/\ co[i].task_id \in tasks[t].dependencies
                           /\ tasks[t].dependencies
                                  \cap Range(pending_tasks') = {})
                              => /\ wf_pc' = "running"
                                 /\ rounds' = rounds + 1
                                 /\ t \in dispatched'
                                 /\ \E k \in 1..Len(co') :
                                        co'[k] = NewCoroutine(t)]_vars

\* C15 witness: in round 2 of a call a task runs on a worker while a
\* dependency of it, dispatched in round 1 of the call, is FAILED.
C15_Witness ==
    \E k \in 1..Len(co) :
        /\ wf_pc = "running"
        /\ rounds = 2
        /\ co[k].pc = "running"
        /\ tasks[co[k].task_id].status = IN_PROGRESS
        /\ \E d \in Deps(co[k].task_id) :
               /\ d # co[k].task_id
               /\ d \in dispatched
               /\ tasks[d].status = FAILED

\* ------------------------------------------------- the selector on its own
\* The metrics a direct call of _select_optimal_agent may find: loads under,
\* at and over the threshold (in tenths), three success rates, two response
\* times.
LoadValues == {0, 7, 8, 9}

SuccessValues == {SCALE, 9 * (SCALE \div 10), SCALE \div 2}

TimeValues == {0, 1}

MetricsOf(agent_id) ==
    [agent_id : {agent_id}, current_load : LoadValues,
     success_rate : SuccessValues, avg_response_time : TimeValues]

\* agent_metrics dicts over AgentIds: every insertion order, every value.
SelectorInputs ==
    {<<>>}
      \cup UNION {{<<m>> : m \in MetricsOf(a)} : a \in AgentIds}
      \cup UNION {{<<m, n>> : m \in MetricsOf(a), n \in MetricsOf(b)} :
                      <<a, b>> \in {p \in AgentIds \X AgentIds : p[1] # p[2]}}

SelectorInit ==
    /\ agent_metrics \in SelectorInputs
    /\ selection = Unset
    /\ collaboration = NewCollaboration
    /\ called = <<>>
    /\ returned = Unset
    /\ deliveries = <<>>
    /\ workflow_hooks = EmptyMap
    /\ hook_calls = <<>>
    /\ tasks = EmptyMap
    /\ attempts = EmptyMap
    /\ knowledge_manager = NewKnowledgeManager
    /\ wf_pc = "idle"
    /\ entry_tasks = <<>>
    /\ pending_tasks = <<>>
    /\ ready_tasks = <<>>
    /\ co = <<>>
    /\ results = EmptyMap
    /\ rounds = 0
    /\ dispatched = {}
    /\ exhausted = {}
    /\ entries_used = 0

\* A direct call of _select_optimal_agent.
Select ==
    /\ selection = Unset
    /\ selection' = _select_optimal_agent(agent_metrics)
    /\ UNCHANGED <<tasks, agent_metrics, knowledge_manager, wf_pc, wfLocals,
                   attempts, entries_used, collabVars, hookVars>>

SelectorNext == Select

SelectorSpec == SelectorInit /\ [][SelectorNext]_vars

\* The workers of am with a load under 0.8.
Eligible(am) ==
    {i \in 1..Len(am) : am[i].current_load < LoadThresholdTenths}

\* C16: the selector returns None exactly when no registered worker has a
\* load under 0.8; otherwise it returns a registered worker with a load under
\* 0.8 whose score no worker with a load under 0.8 exceeds; with W1 at load 0
\* and W2 at load 0.9, both with success 1.0 and latency 0, it returns W1.
C16_SelectorContract ==
    selection # Unset
        => /\ selection = None <=> Eligible(agent_metrics) = {}
           /\ selection # None
                  => \E i \in Eligible(agent_metrics) :
                         /\ agent_metrics[i].agent_id = selection
                         /\ \A j \in Eligible(agent_metrics) :
                                Score(agent_metrics[j])
                                    <= Score(agent_metrics[i])
           /\ \A a, b \in AgentIds :
                  agent_metrics =
                      <<[agent_id |-> a, current_load |-> 0,
                         success_rate |-> SCALE, avg_response_time |-> 0],
                        [agent_id |-> b, current_load |-> 9,
                         success_rate |-> SCALE, avg_response_time |-> 0]>>
                      => selection = a

\* C16 witness: W1 was selected over W2 at load 0.9, which was registered
\* first.
C16_Witness ==
    /\ Len(agent_metrics) = 2
    /\ agent_metrics[1].current_load = 9
    /\ agent_metrics[1].success_rate = SCALE
    /\ agent_metrics[1].avg_response_time = 0
    /\ agent_metrics[2] = NewMetrics(agent_metrics[2].agent_id)
    /\ selection = agent_metrics[2].agent_id

\* The coroutines whose attempt is running on worker agent_id.
RunningOn(agent_id) ==
    {i \in 1..Len(co) :
         co[i].pc = "running" /\ co[i].selected_agent = agent_id}

\* C17: in every state a worker's current_load is the number of attempts
\* running on it, and when no call is running every current_load is 0.
C17_LoadCountsRunningAttempts ==
    /\ \A k \in 1..Len(agent_metrics) :
           agent_metrics[k].current_load
               = 10 * Cardinality(RunningOn(agent_metrics[k].agent_id))
    /\ wf_pc # "running"
           => \A k \in 1..Len(agent_metrics) :
                  agent_metrics[k].current_load = 0

\* C17 witness: a call has returned after a run that raised on its last
\* retry and a run that returned, and every current_load is 0.
C17_Witness ==
    /\ wf_pc = "returned"
    /\ \E t \in exhausted : tasks[t].error = RunError
    /\ \E t \in DOMAIN results : tasks[t].status = COMPLETED
    /\ Len(agent_metrics) = 2
    /\ \A k \in 1..Len(agent_metrics) : agent_metrics[k].current_load = 0

\* C18: the end of an attempt that ran on a worker updates the success_rate
\* of that worker, and of no other, by new = 0.9 * old + 0.1 * (1 if the run
\* returned, else 0), and every success_rate stays within [0, 1].
C18_AttemptUpdatesItsWorker ==
    [][\A i \in 1..Len(co) :
         (co[i].pc = "running" /\ co'[i].pc # "running")
             => \A k \in 1..Len(agent_metrics) :
                  LET old == agent_metrics[k].success_rate
                      new == agent_metrics'[k].success_rate
                  IN /\ agent_metrics[k].agent_id = co[i].selected_agent
                            => new = 9 * (old \div 10)
                                       + (IF co'[i].pc = "returned"
                                          THEN SCALE \div 10 ELSE 0)
                     /\ agent_metrics[k].agent_id # co[i].selected_agent
                            => new = old
                     /\ 0 <= new /\ new <= SCALE]_vars

\* ------------------------------------------------ tasks of any priority
\* The priorities create_task is given here: the lowest and the highest.
PriorityChoices == {LOW, CRITICAL}

CreateTaskWithPriority ==
    \E priority \in PriorityChoices, dependencies \in DepChoices :
        create_task(priority, dependencies)

PriorityNext ==
    \/ RegisterAgent
    \/ CreateTaskWithPriority
    \/ ExecuteWorkflow
    \/ TaskStarts
    \/ TaskWakes
    \/ RunReturn
    \/ RunRaise
    \/ Join

PrioritySpec == Init /\ [][PriorityNext]_vars

\* The tasks of seq none of whose dependencies is in seq, in the order of
\* seq.
WithoutPendingDependency(seq) ==
    LET Free(t) == tasks[t].dependencies \cap Range(seq) = {}
    IN SelectSeq(seq, Free)

\* The first worker of am with a load under 0.8 whose score no such worker
\* exceeds, None when there is none.
FirstBest(am) ==
    IF Eligible(am) = {} THEN None
    ELSE am[CHOOSE i \in Eligible(am) :
                /\ \A j \in Eligible(am) : Score(am[j]) <= Score(am[i])
                /\ \A j \in Eligible(am) :
                       j < i => Score(am[j]) < Score(am[i])].agent_id

\* C19: whatever the priorities of the tasks, no step changes a priority;
\* the coroutines of a round are the tasks of the working set without a
\* dependency in it, in the order of the entry list; the worker an attempt
\* gets is decided by the metrics of the workers alone; and the mapping gets
\* what the coroutines of the round returned.
C19_PriorityNotRead ==
    [][/\ \A t \in TaskIds : tasks'[t].priority = tasks[t].priority
       /\ wf_pc' = "running"
              => /\ ready_tasks' = WithoutPendingDependency(pending_tasks')
                 /\ [i \in 1..Len(co') |-> co'[i].task_id] = ready_tasks'
       /\ \A i \in 1..Len(co) :
              (co[i].pc \in {"start", "sleeping"} /\ co'[i].pc = "running")
                  => co'[i].selected_agent = FirstBest(agent_metrics)
       /\ (wf_pc = "running" /\ co' # co /\ \A i \in 1..Len(co) : Settled(co[i]))
              => /\ DOMAIN results' =
                        DOMAIN results
                            \cup {co[i].task_id :
                                      i \in {j \in 1..Len(co) :
                                                 co[j].pc = "returned"}}
                 /\ \A t \in DOMAIN results' \ DOMAIN results :
                        \E i \in 1..Len(co) :
                            /\ co[i].task_id = t
                            /\ co[i].pc = "returned"
                            /\ results'[t] = co[i].out]_vars

\* C19 witness: the second task of a round has the higher priority, and the
\* first task of the round is the one that has been selected first.
C19_Witness ==
    /\ wf_pc = "running"
    /\ Len(co) = 2
    /\ tasks[co[1].task_id].priority < tasks[co[2].task_id].priority
    /\ co[1].pc = "running"
    /\ co[2].pc = "start"

\* Entries the shared knowledge store may get.
MaxStore == 2

\* The largest k a query is made with.
MaxK == 2

\* --------------------------------------------------- the shared knowledge
\* What the wall clock may read when share_knowledge asks; it may read the
\* same twice, and less than before after it was set back.
Times == [second : {9, 10}, microsecond : {0, 10}]

\* The knowledge dicts agents share.
Knowledge == {[t |-> <<"a">>], [t |-> <<"A", "b">>], [t |-> <<"b">>]}

\* The agents a caller may hand to register_agent.
AgentObjects == {"BaseAgent", "object"}

\* The errors the collaboration raises.
InvalidAgentType(agent_id) ==
    <<"CollaborationError", "Invalid agent type", agent_id>>

InvalidAgentId == <<"CollaborationError", "Invalid agent ID">>

\* AgentCollaboration.register_agent
collaboration_register_agent(agent_id, agent) ==
    /\ called' = <<"register_agent", agent_id, agent>>
    /\ UNCHANGED deliveries
    /\ IF agent # "BaseAgent"
       THEN /\ returned' = InvalidAgentType(agent_id)
            /\ UNCHANGED collaboration
       ELSE /\ collaboration' =
                  [collaboration EXCEPT !.agents = @ \cup {agent_id}]
            /\ returned' = None

\* AgentCollaboration.share_knowledge, with the clock reading now. The node
\* at place n of knowledge_graph is the one with the key knowledge_(n-1).
share_knowledge(agent_id, knowledge, now) ==
    /\ called' = <<"share_knowledge", agent_id, knowledge>>
    /\ UNCHANGED deliveries
    /\ IF agent_id \notin collaboration.agents
       THEN /\ returned' = InvalidAgentId
            /\ UNCHANGED collaboration
       ELSE /\ Len(collaboration.knowledge_store) < MaxStore
            /\ collaboration' =
                  [collaboration EXCEPT
                     !.knowledge_store =
                         Append(@, [agent_id |-> agent_id,
                                    content |-> knowledge,
                                    timestamp |-> isoformat(now)]),
                     !.knowledge_graph =
                         Append(@, [agent_id |-> agent_id,
                                    content |-> knowledge,
                                    connections |-> <<>>])]
            /\ returned' = None
RECURSIVE sort_ascending(_, _)

\* list.sort(key = timestamp) without reverse: oldest first.
sort_ascending(store, refs) ==
    IF refs = <<>> THEN <<>>
    ELSE LET n == Len(refs)
             sorted == sort_ascending(store, SubSeq(refs, 1, n - 1))
             x == refs[n]
             after == {i \in 1..Len(sorted) :
                         StrLess(store[x].timestamp,
                                 store[sorted[i]].timestamp)}
             at == IF after = {} THEN Len(sorted) + 1
                   ELSE CHOOSE i \in after : \A j \in after : i <= j
         IN SubSeq(sorted, 1, at - 1) \o <<x>>
                \o SubSeq(sorted, at, Len(sorted))

RECURSIVE sort_reverse(_, _)

\* list.sort(key = timestamp, reverse = True) on references to entries of
\* store: greatest timestamp first, entries with equal timestamps in the
\* order they had.
sort_reverse(store, refs) ==
    IF refs = <<>> THEN <<>>
    ELSE LET n == Len(refs)
             sorted == sort_reverse(store, SubSeq(refs, 1, n - 1))
             x == refs[n]
             after == {i \in 1..Len(sorted) :
                         StrLess(store[sorted[i]].timestamp,
                                 store[x].timestamp)}
             at == IF after = {} THEN Len(sorted) + 1
                   ELSE CHOOSE i \in after : \A j \in after : i <= j
         IN SubSeq(sorted, 1, at - 1) \o <<x>>
                \o SubSeq(sorted, at, Len(sorted))

\* seq[:k]
Slice(seq, k) ==
    IF k >= 0 THEN SubSeq(seq, 1, IF k < Len(seq) THEN k ELSE Len(seq))
    ELSE SubSeq(seq, 1, IF Len(seq) + k > 0 THEN Len(seq) + k ELSE 0)

\* any(keyword.lower() in str(entry['content']).lower()
\*     for keyword in query.split())
AnyKeyword(entry, query) ==
    \E n \in 1..Len(split(query)) :
        contains(lower(repr(entry.content)), lower(split(query)[n]))

\* The list query_shared_knowledge returns: references to the entries of the
\* store, each the place of an entry in knowledge_store.
QueryResults(store, query, k) ==
    LET Test(i) == AnyKeyword(store[i], query)
        matching == SelectSeq([i \in 1..Len(store) |-> i], Test)
    IN Slice(sort_reverse(store, matching), k)

\* AgentCollaboration.query_shared_knowledge
query_shared_knowledge(query, k) ==
    /\ called' = <<"query_shared_knowledge", query, k>>
    /\ returned' = QueryResults(collaboration.knowledge_store, query, k)
    /\ UNCHANGED <<collaboration, deliveries>>

\* The queries made: no token at all, one token in either case, a token no
\* entry has, two tokens, a token of the dict's own text.
Queries ==
    {<<>>, <<" ">>, <<"a">>, <<"B">>, <<"a", "b">>, <<"b", "a">>,
     <<"b", "a", " ", "A", "B">>, <<" ", "b", " ">>, <<"t">>}

KValues == (-1)..MaxK

orchestratorVars ==
    <<tasks, agent_metrics, knowledge_manager, wf_pc, wfLocals, attempts,
      entries_used, retVars, hookVars>>

CollaborationRegisterAgent ==
    /\ \E agent_id \in AgentIds, agent \in AgentObjects :
           collaboration_register_agent(agent_id, agent)
    /\ UNCHANGED orchestratorVars

ShareKnowledge ==
    /\ \E agent_id \in AgentIds, knowledge \in Knowledge, now \in Times :
           share_knowledge(agent_id, knowledge, now)
    /\ UNCHANGED orchestratorVars

QuerySharedKnowledge ==
    /\ \E query \in Queries, k \in KValues : query_shared_knowledge(query, k)
    /\ UNCHANGED orchestratorVars

CollaborationNext ==
    \/ CollaborationRegisterAgent
    \/ ShareKnowledge
    \/ QuerySharedKnowledge

CollaborationSpec == Init /\ [][CollaborationNext]_vars

\* The entries of the shared knowledge store.
Store == collaboration.knowledge_store

\* The whitespace-separated tokens of query: its longest runs without a
\* space.
Tokens(query) ==
    {SubSeq(query, i, j) :
        <<i, j>> \in {p \in (1..Len(query)) \X (1..Len(query)) :
                        /\ p[1] <= p[2]
                        /\ \A n \in p[1]..p[2] : query[n] # " "
                        /\ p[1] = 1 \/ query[p[1] - 1] = " "
                        /\ p[2] = Len(query) \/ query[p[2] + 1] = " "}}

\* c and d are one letter, in whatever case.
SameLetter(c, d) ==
    \/ c = d
    \/ {c, d} \in {{"a", "A"}, {"b", "B"}}

\* token is in text, case aside.
ContainsIgnoringCase(text, token) ==
    \E at \in 0..(Len(text) - Len(token)) :
        \A n \in 1..Len(token) : SameLetter(text[at + n], token[n])

\* The entries whose content, as text, contains a token of query.
Matching(query) ==
    {i \in 1..Len(Store) :
        \E token \in Tokens(query) :
            ContainsIgnoringCase(repr(Store[i].content), token)}

\* The clock reading a timestamp was made from.
fromisoformat(timestamp) ==
    CHOOSE now \in Times : isoformat(now) = timestamp

\* Entry i was shared at a later clock reading than entry j.
Newer(i, j) ==
    LET a == fromisoformat(Store[i].timestamp)
        b == fromisoformat(Store[j].timestamp)
    IN \/ a.second > b.second
       \/ a.second = b.second /\ a.microsecond > b.microsecond

\* A query_shared_knowledge call was the last call, and k was at least 0.
QueryReturned ==
    /\ Len(called) > 0
    /\ called[1] = "query_shared_knowledge"
    /\ called[3] >= 0

\* What the claim says of the list res returned for query and k, but for
\* its last part: at most k entries, each a matching entry of the store and
\* none twice, most recent first, no older entry without every newer matching
\* one, and nothing for an empty query or when nothing matches.
MostRecentMatches(query, k, res) ==
    /\ Len(res) <= k
    /\ \A n \in 1..Len(res) : res[n] \in Matching(query)
    /\ \A m, n \in 1..Len(res) : m # n => res[m] # res[n]
    /\ \A m, n \in 1..Len(res) : m < n => ~Newer(res[n], res[m])
    /\ \A i \in Range(res), j \in Matching(query) :
           Newer(j, i) => j \in Range(res)
    /\ (Tokens(query) = {} \/ Matching(query) = {}) => res = <<>>

\* query is one token, and exactly one entry contains it: that entry.
OnlyEntryWith(query) ==
    IF Tokens(query) = {query} /\ Cardinality(Matching(query)) = 1
    THEN Matching(query)
    ELSE {}

\* C20: query_shared_knowledge(query, k) with k >= 0 returns at most k
\* entries, all of them entries of the store whose content contains a token
\* of the query whatever the case, most recent first, an older matching
\* entry only with every newer matching entry; the empty list for an empty
\* query or when no entry matches; and for a token that exactly one entry
\* contains, that entry first.
C20_QueryContract ==
    QueryReturned
        => /\ MostRecentMatches(called[2], called[3], returned)
           /\ \A e \in OnlyEntryWith(called[2]) :
                  returned # <<>> /\ returned[1] = e

\* C20 (amended): the same, with the last part for k >= 1: for a token that
\* exactly one entry contains the call returns that entry and nothing else;
\* with k = 0 it returns the empty list.
C20_QueryContractFromOne ==
    QueryReturned
        => /\ MostRecentMatches(called[2], called[3], returned)
           /\ called[3] >= 1
                  => \A e \in OnlyEntryWith(called[2]) : returned = <<e>>
           /\ called[3] = 0 => returned = <<>>

\* C20 witness: two entries contain the token B, one as b and one in Ab; the
\* call with k = 1 returned the one shared at the later clock reading.
C20_Witness ==
    /\ QueryReturned
    /\ called[2] = <<"B">>
    /\ called[3] = 1
    /\ Len(Store) = 2
    /\ Matching(called[2]) = {1, 2}
    /\ Store[1].content # Store[2].content
    /\ Newer(2, 1)
    /\ returned = <<2>>

\* ---------------------------------------- the knowledge manager's store
\* The entries of the knowledge manager's store.
Documents == knowledge_manager.knowledge_store

\* The coroutines whose run returns in this step.
Succeeding ==
    {i \in 1..Len(co) : co[i].pc = "running" /\ co'[i].pc = "returned"}

\* C21: the ids of the store's entries are their places in it, so distinct
\* and increasing; every step keeps the entries the store has; a run that
\* returns appends exactly one entry, with the text of the task's result, the
\* task's id and the worker's id; every other step, a failed attempt among
\* them, leaves the store as it is.
C21_KnowledgeStoreAppendOnly ==
    /\ [](\A n \in 1..Len(Documents) : Documents[n].id = n - 1)
    /\ [][LET old == knowledge_manager.knowledge_store
              new == knowledge_manager'.knowledge_store
          IN /\ Len(new) >= Len(old)
             /\ SubSeq(new, 1, Len(old)) = old
             /\ \A i \in Succeeding :
                    /\ Len(new) = Len(old) + 1
                    /\ new[Len(new)].content
                           = chars(tasks'[co[i].task_id].result)
                    /\ new[Len(new)].metadata
                           = [task_id |-> co[i].task_id,
                              agent_id |-> co[i].selected_agent]
             /\ Succeeding = {} => new = old]_vars

\* C21 witness: a task's first attempt failed and its second succeeded, and
\* the store has one entry, the one of that task.
C21_Witness ==
    /\ Len(Documents) = 1
    /\ \E t \in TaskIds :
           /\ tasks[t].status = COMPLETED
           /\ tasks[t].retry_count = 1
           /\ attempts[t] = 2
           /\ Documents[1].metadata.task_id = t
           /\ Documents[1].content = chars(tasks[t].result)

\* ------------------------------------------------------------ messaging
\* Messages the queue may get.
MaxQueue == 3

\* The message dicts agents send: the keyword arguments of the receiver's
\* run.
MessageContents == {[task |-> "x"], [task |-> "y"]}

\* AgentCollaboration.send_message
send_message(from_agent, to_agent, message) ==
    /\ called' = <<"send_message", from_agent, to_agent, message>>
    /\ UNCHANGED deliveries
    /\ IF from_agent \notin collaboration.agents
            \/ to_agent \notin collaboration.agents
       THEN /\ returned' = InvalidAgentId
            /\ UNCHANGED collaboration
       ELSE /\ Len(collaboration.message_queue) < MaxQueue
            /\ collaboration' =
                  [collaboration EXCEPT
                     !.message_queue =
                         Append(@, [from |-> from_agent, to |-> to_agent,
                                    content |-> message,
                                    status |-> "pending"])]
            /\ returned' = None

\* What a receiver's run may do with a message.
RunOutcomes == {"returns", "raises"}

\* A try statement that forgets to write the status.
ProcessedStaysPending(message, outcome) ==
    IF outcome = "returns"
    THEN message @@ [result |-> RunResult(message.to)]
    ELSE message @@ [error |-> str(RunError)]

\* The try statement of process_messages on message, whose receiver's run
\* ends as outcome says.
Processed(message, outcome) ==
    IF outcome = "returns"
    THEN [message EXCEPT !.status = "completed"]
             @@ [result |-> RunResult(message.to)]
    ELSE [message EXCEPT !.status = "failed"] @@ [error |-> str(RunError)]

\* A for loop that ends at the first message whose run raises.
ProcessFromUntilError(st, n, outcomes) ==
    LET RECURSIVE Loop(_, _, _)
        Loop(s, m, stopped) ==
            IF m > Len(s.queue) \/ stopped THEN s
            ELSE IF s.queue[m].status # "pending" THEN Loop(s, m + 1, FALSE)
            ELSE Loop([queue |-> [s.queue EXCEPT
                                    ![m] = Processed(@, outcomes[m])],
                       processed_messages |-> Append(s.processed_messages, m),
                       delivered |-> Append(s.delivered, m)],
                      m + 1, outcomes[m] = "raises")
    IN Loop(st, n, FALSE)

RECURSIVE ProcessFrom(_, _, _)

\* The for loop of process_messages from place n of the queue on, with what
\* it has built so far: the queue, the list it returns (references to the
\* messages, each the place of a message in the queue) and the messages
\* handed to a run.
ProcessFrom(st, n, outcomes) ==
    IF n > Len(st.queue) THEN st
    ELSE IF st.queue[n].status # "pending"
    THEN ProcessFrom(st, n + 1, outcomes)
    ELSE ProcessFrom(
             [queue |-> [st.queue EXCEPT ![n] = Processed(@, outcomes[n])],
              processed_messages |-> Append(st.processed_messages, n),
              delivered |-> Append(st.delivered, n)],
             n + 1, outcomes)

\* The places of the pending messages of queue.
PendingPlaces(queue) ==
    {n \in 1..Len(queue) : queue[n].status = "pending"}

\* AgentCollaboration.process_messages, the runs ending as outcomes says.
process_messages(outcomes) ==
    LET end == ProcessFrom([queue |-> collaboration.message_queue,
                            processed_messages |-> <<>>,
                            delivered |-> <<>>], 1, outcomes)
    IN /\ called' = <<"process_messages">>
       /\ collaboration' = [collaboration EXCEPT !.message_queue = end.queue]
       /\ returned' = end.processed_messages
       /\ deliveries' = deliveries \o end.delivered

SendMessage ==
    /\ \E from_agent \in AgentIds, to_agent \in AgentIds,
          message \in MessageContents :
           send_message(from_agent, to_agent, message)
    /\ UNCHANGED orchestratorVars

ProcessMessages ==
    /\ \E outcomes \in
              [PendingPlaces(collaboration.message_queue) -> RunOutcomes] :
           process_messages(outcomes)
    /\ UNCHANGED orchestratorVars

MessagingNext ==
    \/ CollaborationRegisterAgent
    \/ SendMessage
    \/ ProcessMessages

MessagingSpec == Init /\ [][MessagingNext]_vars

\* The message queue before and after a step.
Queue == collaboration.message_queue

QueueAfter == collaboration'.message_queue

\* The step is a call of the collaboration's operation name.
Calls(name) == called' # <<>> /\ called'[1] = name

\* seq holds the elements of S once each, in increasing order.
IsAscending(seq, S) ==
    /\ Range(seq) = S
    /\ \A m, n \in 1..Len(seq) : m < n => seq[m] < seq[n]

\* What the claim says of every step, but for the status a delivered message
\* gets: an accepted send_message puts the message last with status pending;
\* no step removes a message, changes what it says or touches one that is
\* not pending; a process_messages call hands every pending message to a run,
\* in queue order, returns just these and leaves none pending; no other step
\* delivers anything.
QueueDiscipline ==
    /\ Len(QueueAfter) >= Len(Queue)
    /\ \A n \in 1..Len(Queue) :
           /\ QueueAfter[n].from = Queue[n].from
           /\ QueueAfter[n].to = Queue[n].to
           /\ QueueAfter[n].content = Queue[n].content
           /\ Queue[n].status # "pending" => QueueAfter[n] = Queue[n]
    /\ (Calls("send_message") /\ returned' = None)
           => QueueAfter = Append(Queue, [from |-> called'[2],
                                          to |-> called'[3],
                                          content |-> called'[4],
                                          status |-> "pending"])
    /\ Calls("process_messages")
           => /\ IsAscending(returned', PendingPlaces(Queue))
              /\ deliveries' = deliveries \o returned'
              /\ PendingPlaces(QueueAfter) = {}
              /\ Len(QueueAfter) = Len(Queue)
    /\ ~Calls("process_messages") => deliveries' = deliveries

\* No message was handed to a run twice, and the messages were handed over
\* in queue order.
DeliveredOnceInOrder ==
    \A m, n \in 1..Len(deliveries) : m < n => deliveries[m] < deliveries[n]

\* C22: an accepted message is queued pending behind the earlier ones; each
\* message is delivered at most once, in queue order, by the first
\* process_messages call after it was sent, which returns it with status
\* completed and the result; a later call neither delivers nor returns it; no
\* message is removed or set back to pending.
C22_DeliveredOnceCompleted ==
    /\ []DeliveredOnceInOrder
    /\ [][/\ QueueDiscipline
          /\ Calls("process_messages")
                 => \A n \in PendingPlaces(Queue) :
                        /\ QueueAfter[n].status = "completed"
                        /\ QueueAfter[n].result = RunResult(Queue[n].to)]_vars

\* C22 (amended): the same, but the first process_messages call returns the
\* message with status completed and the result when the run returned, and
\* with status failed and the error text when the run raised.
C22_DeliveredOnce ==
    /\ []DeliveredOnceInOrder
    /\ [][/\ QueueDiscipline
          /\ Calls("process_messages")
                 => \A n \in PendingPlaces(Queue) :
                        \/ /\ QueueAfter[n].status = "completed"
                           /\ QueueAfter[n].result = RunResult(Queue[n].to)
                           /\ "error" \notin DOMAIN QueueAfter[n]
                        \/ /\ QueueAfter[n].status = "failed"
                           /\ QueueAfter[n].error = str(RunError)
                           /\ "result" \notin DOMAIN QueueAfter[n]]_vars

\* C22 witness: the second process_messages call returned the two messages
\* sent after the first call, which had delivered the first message; the
\* three runs returned.
C22_Witness ==
    /\ called = <<"process_messages">>
    /\ Len(Queue) = 3
    /\ deliveries = <<1, 2, 3>>
    /\ returned = <<2, 3>>
    /\ Queue[1].status = "completed"
    /\ Queue[2].status = "completed"
    /\ Queue[3].status = "completed"
    /\ Queue[2].to # Queue[3].to

\* The pending messages whose run raises in this step.
Raising ==
    {n \in PendingPlaces(Queue) : QueueAfter[n].status = "failed"}

\* C29: an exception of a receiver's run stays with its message: the message
\* gets status failed with the error text and is in the returned list,
\* process_messages returns its list all the same, and every pending message
\* behind it is handed to its run in the same call.
C29_RunErrorConfined ==
    [][(Calls("process_messages") /\ Raising # {})
          => /\ \A k \in 1..Len(returned') : returned'[k] \in 1..Len(Queue)
             /\ \A n \in Raising :
                    /\ QueueAfter[n].error = str(RunError)
                    /\ n \in Range(returned')
                    /\ \A m \in PendingPlaces(Queue) :
                           m > n
                             => /\ m \in Range(returned')
                                /\ QueueAfter[m].status
                                       \in {"completed", "failed"}
                                /\ \E k \in (Len(deliveries) + 1)
                                              ..Len(deliveries') :
                                       deliveries'[k] = m]_vars

\* C29 witness: one call delivered two messages; the run of the first
\* raised, the run of the second returned, and the call returned both.
C29_Witness ==
    /\ called = <<"process_messages">>
    /\ returned = <<1, 2>>
    /\ deliveries = <<1, 2>>
    /\ Queue[1].status = "failed"
    /\ Queue[1].error = str(RunError)
    /\ Queue[2].status = "completed"
    /\ Queue[2].result = RunResult(Queue[2].to)

\* ------------------------------------------------------ search_similar
\* Documents the knowledge manager's store may get from direct calls.
MaxDocuments == 3

\* The texts handed to add_documents.
DocumentTexts ==
    {<<"a">>, <<"a", " ", "a", " ", "a">>, <<"A", " ", "b">>,
     <<"b", "a", " ", "a">>}

\* The metadata dicts handed to add_documents.
SourceMetadata == [source |-> "test1"]

RECURSIVE count(_, _)

\* str.count(word): the occurrences of word in text that do not overlap,
\* from the left.
count(text, word) ==
    IF Len(text) < Len(word) THEN 0
    ELSE IF SubSeq(text, 1, Len(word)) = word
    THEN 1 + count(SubSeq(text, Len(word) + 1, Len(text)), word)
    ELSE count(Tail(text), word)

\* 1000 * log(n) for n = 1..16, to the nearest integer.
LogMilli ==
    <<0, 693, 1099, 1386, 1609, 1792, 1946, 2079, 2197, 2303, 2398, 2485,
      2565, 2639, 2708, 2773>>

\* 1 + log(doc_count / doc_freq), in thousandths.
Idf(doc_count, doc_freq) == 1000 + LogMilli[doc_count] - LogMilli[doc_freq]

\* next(d for d in self.knowledge_store if d['id'] == doc_id), as the place
\* of d in the store.
PlaceOf(store, doc_id) ==
    CHOOSE n \in 1..Len(store) :
        /\ store[n].id = doc_id
        /\ \A m \in 1..(n - 1) : store[m].id # doc_id

\* doc['content'].lower().count(word) / len(doc['content'].split()), in
\* sixtieths: the texts have one to five words.
Tf(content, word) ==
    (60 * count(lower(content), word)) \div Len(split(content))

\* matching_docs[doc_id] += score, on a dict kept as the list of its items
\* in insertion order; a missing key starts at 0.
AddScore(matching_docs, doc_id, score) ==
    IF \E n \in 1..Len(matching_docs) : matching_docs[n][1] = doc_id
    THEN [n \in 1..Len(matching_docs) |->
             IF matching_docs[n][1] = doc_id
             THEN <<doc_id, matching_docs[n][2] + score>>
             ELSE matching_docs[n]]
    ELSE Append(matching_docs, <<doc_id, score>>)

RECURSIVE ScoreDocs(_, _, _, _, _)

\* The inner for loop of search_similar over the index list of word.
ScoreDocs(km, matching_docs, word, doc_ids, idf) ==
    IF doc_ids = <<>> THEN matching_docs
    ELSE LET doc_id == Head(doc_ids)
             doc == km.knowledge_store[PlaceOf(km.knowledge_store, doc_id)]
         IN ScoreDocs(km,
                      AddScore(matching_docs, doc_id,
                               Tf(doc.content, word) * idf),
                      word, Tail(doc_ids), idf)

\* self.knowledge_index.get(word, [])
IndexGet(km, word) ==
    IF word \in DOMAIN km.knowledge_index THEN km.knowledge_index[word]
    ELSE <<>>

RECURSIVE ScoreWords(_, _, _)

\* The outer for loop of search_similar over the query words.
ScoreWords(km, matching_docs, query_words) ==
    IF query_words = <<>> THEN matching_docs
    ELSE LET word == Head(query_words)
             doc_freq == Len(IndexGet(km, word))
         IN ScoreWords(km,
                       IF doc_freq > 0
                       THEN ScoreDocs(km, matching_docs, word,
                                      IndexGet(km, word),
                                      Idf(Len(km.knowledge_store), doc_freq))
                       ELSE matching_docs,
                       Tail(query_words))

RECURSIVE SortedByScore(_)

\* sorted(items, key = score, reverse = True): highest score first, items
\* with equal scores in the order they had.
SortedByScore(items) ==
    IF items = <<>> THEN <<>>
    ELSE LET n == Len(items)
             sorted == SortedByScore(SubSeq(items, 1, n - 1))
             x == items[n]
             after == {i \in 1..Len(sorted) : sorted[i][2] < x[2]}
             at == IF after = {} THEN Len(sorted) + 1
                   ELSE CHOOSE i \in after : \A j \in after : i <= j
         IN SubSeq(sorted, 1, at - 1) \o <<x>>
                \o SubSeq(sorted, at, Len(sorted))

\* A result loop that takes every scored document.
TopResultsUnfiltered(store, sorted_docs, k) ==
    [n \in 1..Len(sorted_docs) |-> PlaceOf(store, sorted_docs[n][1])]

\* The for loop over sorted_docs[:k]: the documents with a score above 0, as
\* references (the place of each in the store).
TopResults(store, sorted_docs, k) ==
    LET top == Slice(sorted_docs, k)
        Positive(item) == item[2] > 0
        kept == SelectSeq(top, Positive)
    IN [n \in 1..Len(kept) |-> PlaceOf(store, kept[n][1])]

\* The list search_similar returns.
SearchResults(km, query, k) ==
    LET query_words == split(lower(query))
        matching_docs == ScoreWords(km, <<>>, query_words)
        sorted_docs == SortedByScore(matching_docs)
    IN IF query_words # <<>>
       THEN TopResults(km.knowledge_store, sorted_docs, k)
       ELSE <<>>

\* KnowledgeManager.search_similar
search_similar(query, k) ==
    /\ called' = <<"search_similar", query, k>>
    /\ returned' = SearchResults(knowledge_manager, query, k)
    /\ UNCHANGED knowledge_manager

\* The queries made: no word, a word in either case, a word that is not
\* indexed, two words, a word twice.
SearchQueries ==
    {<<>>, <<" ">>, <<"a">>, <<"A">>, <<"b">>, <<"t">>,
     <<"a", " ", "B">>, <<"a", " ", "a">>, <<"b", "a">>}

\* The document lists handed to add_documents: one text, or two.
DocumentLists ==
    {<<d>> : d \in DocumentTexts}
        \cup {<<d, e>> : d \in DocumentTexts, e \in DocumentTexts}

\* What add_documents gets as metadata: None, or one dict.
MetadataLists == {<<>>, <<SourceMetadata>>}

\* A direct call of add_documents.
AddDocuments ==
    /\ \E documents \in DocumentLists, metadata \in MetadataLists :
         /\ Len(knowledge_manager.knowledge_store) + Len(documents)
                <= MaxDocuments
         /\ knowledge_manager' =
                add_documents(knowledge_manager, documents, metadata)
         /\ called' = <<"add_documents", documents, metadata>>
         /\ returned' = None
    /\ UNCHANGED <<tasks, agent_metrics, wf_pc, wfLocals, attempts,
                   entries_used, retVars, collaboration, deliveries,
                   hookVars>>

SearchSimilar ==
    /\ \E query \in SearchQueries, k \in KValues : search_similar(query, k)
    /\ UNCHANGED <<tasks, agent_metrics, wf_pc, wfLocals, attempts,
                   entries_used, retVars, collaboration, deliveries,
                   hookVars>>

SearchNext ==
    \/ AddDocuments
    \/ SearchSimilar

SearchSpec == Init /\ [][SearchNext]_vars

\* A search_similar call with k at least 0 was the last call.
SearchReturned ==
    /\ called # <<>>
    /\ called[1] = "search_similar"
    /\ called[3] >= 0

\* The words of text: its longest runs without a space, in lower case.
LowerWords(text) == {lower(token) : token \in Tokens(text)}

\* The document at place n has a word of query among the words it was
\* indexed under.
HasQueryWord(n, query) ==
    \E word \in LowerWords(query) :
        /\ word \in DOMAIN knowledge_manager.knowledge_index
        /\ Documents[n].id \in Range(knowledge_manager.knowledge_index[word])
        /\ word \in LowerWords(Documents[n].content)

\* C23: search_similar(query, k) with k >= 0 returns at most k documents,
\* none twice, each a document of the store with a word of the query among
\* its indexed words; it returns the empty list for an empty query and for a
\* query none of whose words is indexed; and it changes neither the store
\* nor the index.
C23_SearchContract ==
    /\ [](SearchReturned
            => /\ Len(returned) <= called[3]
               /\ \A m, n \in 1..Len(returned) :
                      m # n => returned[m] # returned[n]
               /\ \A n \in 1..Len(returned) :
                      /\ returned[n] \in 1..Len(Documents)
                      /\ HasQueryWord(returned[n], called[2])
               /\ LowerWords(called[2]) = {} => returned = <<>>
               /\ (LowerWords(called[2])
                       \cap DOMAIN knowledge_manager.knowledge_index = {})
                      => returned = <<>>)
    /\ [][Calls("search_similar")
            => knowledge_manager' = knowledge_manager]_vars

\* C23 witness: the store has three documents, two of them with the word a;
\* the call for "a B" with k = 1 returned one of the documents.
C23_Witness ==
    /\ SearchReturned
    /\ called[2] = <<"a", " ", "B">>
    /\ called[3] = 1
    /\ Len(Documents) = 3
    /\ Cardinality({n \in 1..3 : HasQueryWord(n, called[2])}) >= 2
    /\ Len(returned) = 1

\* ------------------------------------------------------ workflow hooks
\* Calls of add_workflow_hook made.
MaxHooks == 1

\* The events and callbacks a caller registers.
Events == {"task_completed"}

Callbacks == {"cb1", "cb2"}

\* The callbacks registered, over all events.
RegisteredCallbacks ==
    UNION {Range(workflow_hooks[event]) : event \in DOMAIN workflow_hooks}

\* The number of callbacks registered, with repeats.
HooksRegistered ==
    LET RECURSIVE Sum(_)
        Sum(S) == IF S = {} THEN 0
                  ELSE LET event == CHOOSE e \in S : TRUE
                       IN Len(workflow_hooks[event]) + Sum(S \ {event})
    IN Sum(DOMAIN workflow_hooks)

\* AgentOrchestrator.add_workflow_hook.  Nothing in the orchestrator reads
\* workflow_hooks: no step appends to hook_calls.
add_workflow_hook(event, callback) ==
    /\ wf_pc # "running"
    /\ HooksRegistered < MaxHooks
    /\ workflow_hooks' =
           IF event \notin DOMAIN workflow_hooks
           THEN (event :> <<callback>>) @@ workflow_hooks
           ELSE [workflow_hooks EXCEPT ![event] = Append(@, callback)]
    /\ UNCHANGED <<tasks, agent_metrics, knowledge_manager, wf_pc, wfLocals,
                   attempts, entries_used, retVars, collabVars, hook_calls>>

AddWorkflowHook ==
    \E event \in Events, callback \in Callbacks :
        add_workflow_hook(event, callback)

HookNext ==
    \/ RegisterAgent
    \/ CreateTask
    \/ AddWorkflowHook
    \/ ExecuteWorkflow
    \/ TaskStarts
    \/ TaskWakes
    \/ RunReturn
    \/ RunRaise
    \/ Join

HookSpec == Init /\ [][HookNext]_vars

\* C24: when an execute_workflow call that ran tasks returns, every callback
\* that add_workflow_hook registered before the call has been invoked.
C24_HooksInvoked ==
    [][(wf_pc = "running" /\ wf_pc' = "returned")
          => \A cb \in RegisteredCallbacks : cb \in Range(hook_calls')]_vars

\* ---------------------------------------------------- the knowledge graph
\* Relations the graph's nodes may hold, counted at the node with the most.
MaxRelations == 2

\* The node ids, attribute dicts and relation types callers use.
NodeIds == {"node1", "node2"}

NodeAttributes == {[type |-> "concept"], [type |-> "topic"]}

RelationTypes == {"related_to"}

NodeMissing == <<"ValueError", "Both nodes must exist in the knowledge graph">>

NodeNotFound(node_id) == <<"ValueError", "Node not found", node_id>>

\* The graph of the knowledge manager.
Graph == knowledge_manager.knowledge_graph

\* KnowledgeManager.add_knowledge_node: the entry of node_id is set, whether
\* the graph has the id or not.
add_knowledge_node(node_id, attributes) ==
    /\ called' = <<"add_knowledge_node", node_id, attributes>>
    /\ knowledge_manager' =
           [knowledge_manager EXCEPT
              !.knowledge_graph =
                  (node_id :> [attributes |-> attributes,
                               connections |-> [incoming |-> <<>>,
                                                outgoing |-> <<>>]]) @@ @]
    /\ returned' = None

\* KnowledgeManager.add_knowledge_relation
add_knowledge_relation(from_node, to_node, relation_type) ==
    /\ called' = <<"add_knowledge_relation", from_node, to_node,
                   relation_type>>
    /\ IF from_node \notin DOMAIN Graph \/ to_node \notin DOMAIN Graph
       THEN /\ returned' = NodeMissing
            /\ UNCHANGED knowledge_manager
       ELSE /\ Len(Graph[from_node].connections.outgoing) < MaxRelations
            /\ Len(Graph[to_node].connections.incoming) < MaxRelations
            /\ LET with_outgoing ==
                       [Graph EXCEPT
                          ![from_node].connections.outgoing =
                              Append(@, [to |-> to_node,
                                         type |-> relation_type])]
                   with_incoming ==
                       [with_outgoing EXCEPT
                          ![to_node].connections.incoming =
                              Append(@, [from |-> from_node,
                                         type |-> relation_type])]
               IN knowledge_manager' =
                      [knowledge_manager EXCEPT
                         !.knowledge_graph = with_incoming]
            /\ returned' = None

\* What get_related_nodes returns for a node of graph.
RelatedNodes(graph, node_id) ==
    LET node == graph[node_id] IN
    [incoming |-> [n \in 1..Len(node.connections.incoming) |->
                      node.connections.incoming[n].from],
     outgoing |-> [n \in 1..Len(node.connections.outgoing) |->
                      node.connections.outgoing[n].to]]

\* KnowledgeManager.get_related_nodes
get_related_nodes(node_id) ==
    /\ called' = <<"get_related_nodes", node_id>>
    /\ returned' = IF node_id \notin DOMAIN Graph THEN NodeNotFound(node_id)
                   ELSE RelatedNodes(Graph, node_id)
    /\ UNCHANGED knowledge_manager

graphFrame ==
    <<tasks, agent_metrics, wf_pc, wfLocals, attempts, entries_used, retVars,
      collaboration, deliveries, hookVars>>

AddKnowledgeNode ==
    /\ \E node_id \in NodeIds, attributes \in NodeAttributes :
           add_knowledge_node(node_id, attributes)
    /\ UNCHANGED graphFrame

AddKnowledgeRelation ==
    /\ \E from_node \in NodeIds, to_node \in NodeIds,
          relation_type \in RelationTypes :
           add_knowledge_relation(from_node, to_node, relation_type)
    /\ UNCHANGED graphFrame

GetRelatedNodes ==
    /\ \E node_id \in NodeIds : get_related_nodes(node_id)
    /\ UNCHANGED graphFrame

GraphNext ==
    \/ AddKnowledgeNode
    \/ AddKnowledgeRelation
    \/ GetRelatedNodes

GraphSpec == Init /\ [][GraphNext]_vars

\* How many times x is in seq.
Occurrences(seq, x) == Cardinality({n \in 1..Len(seq) : seq[n] = x})

\* C25: node B is in get_related_nodes(A)['outgoing'] as many times as A is
\* in get_related_nodes(B)['incoming'], for all nodes A and B of the graph,
\* and every endpoint of an edge is a node of the graph.
C25_GraphSymmetric ==
    \A a \in DOMAIN Graph :
        /\ \A b \in DOMAIN Graph :
               Occurrences(RelatedNodes(Graph, a).outgoing, b)
                   = Occurrences(RelatedNodes(Graph, b).incoming, a)
        /\ Range(RelatedNodes(Graph, a).outgoing) \subseteq DOMAIN Graph
        /\ Range(RelatedNodes(Graph, a).incoming) \subseteq DOMAIN Graph

\* ------------------------------------------------- one attempt per worker
\* The coroutines whose attempt is running.
Running == {i \in 1..Len(co) : co[i].pc = "running"}

FailsUndispatched ==
    /\ attempts' # attempts
    /\ _select_optimal_agent(agent_metrics) = None

\* The rates _update_agent_metrics keeps for the worker at place k.
Rates(am, k) == <<am[k].success_rate, am[k].avg_response_time>>

\* C27: a failed attempt changes the success_rate of the worker it was
\* dispatched to and of no other worker, and an attempt that fails with no
\* worker selected leaves the rates of every worker as they were, also of a
\* worker that ran an earlier attempt of the same task.
C27_FailureChargesDispatchedWorker ==
    [][/\ FailsUndispatched
           => \A k \in 1..Len(agent_metrics) :
                  Rates(agent_metrics', k) = Rates(agent_metrics, k)
       /\ \A i \in 1..Len(co) :
              (/\ i <= Len(co')
               /\ co[i].pc = "running"
               /\ co'[i].pc \in {"sleeping", "raised"})
                  => \A k \in 1..Len(agent_metrics) :
                         agent_metrics[k].agent_id # co[i].selected_agent
                             => Rates(agent_metrics', k)
                                    = Rates(agent_metrics, k)]_vars

\* ------------------------------------------------- workers that never raise
\* The steps of a call whose workers' run always returns.
ReturningStep == TaskStarts \/ TaskWakes \/ RunReturn \/ Join

ReturningNext ==
    \/ RegisterAgent
    \/ CreateTask
    \/ ExecuteWorkflow
    \/ TaskStarts
    \/ TaskWakes
    \/ RunReturn
    \/ Join

\* No run raises, and a running call always takes its next step.
ReturningSpec == Init /\ [][ReturningNext]_vars /\ WF_vars(ReturningStep)

\* The entry list names each of its tasks once.
EntriesDistinct == Cardinality(Range(entry_tasks)) = Len(entry_tasks)

\* C28: with a worker registered and no run raising, a call over an acyclic
\* graph whose entry list holds each of its tasks once and every dependency
\* of them ends by returning a mapping that holds every entry task, each of
\* them COMPLETED, however many tasks were ready in one round.
C28_EveryEntryTaskCompletes ==
    [][(/\ wf_pc = "running"
        /\ wf_pc' # "running"
        /\ agent_metrics # <<>>
        /\ Acyclic
        /\ EntriesDistinct
        /\ Range(entry_tasks) \subseteq TaskIds
        /\ \A t \in Range(entry_tasks) :
               tasks[t].dependencies \subseteq Range(entry_tasks))
           => /\ wf_pc' = "returned"
              /\ \A t \in Range(entry_tasks) :
                     /\ tasks'[t].status = COMPLETED
                     /\ t \in DOMAIN results']_vars

\* --------------------------------------------------- one attempt per task
\* C30: no two coroutines of a call have an attempt of the same task running
\* at the same time, also when the entry list names a task id twice: a task
\* is run by at most one worker at a time.
C30_OneAttemptPerTask ==
    \A i, j \in Running : co[i].task_id = co[j].task_id => i = j

====
